---- MODULE Spec2Model ----
(***************************************************************************)
(* Model of src/cli_common/file_io.rs: OutputWriter / StdoutWriter, the    *)
(* writer that wraps standard output and truncates what it sends to a TTY. *)
(*                                                                         *)
(* Bytes are integers 0..255.  The standard output stream is the sequence  *)
(* of bytes io::Stdout has accepted; the history variables payload and     *)
(* trailer hold the bytes of it that came from payload writes and from     *)
(* writes of TRUNCATED_TTY_MSG.                                            *)
(***************************************************************************)
EXTENDS Integers, Sequences, FiniteSets, TLC

\* ---------------------------------------------------------------- bounds
\* SHORT_OUTPUT_LENGTH is 20 * 80 in the source; the model scales the cap
\* down.  The code only compares against it and subtracts from it.
SHORT_OUTPUT_LENGTH == 3
\* longest chunk handed to one write call (longer than the cap)
MaxChunk == 4
\* longest chunk that is not well-formed UTF-8
MaxBadChunk == 1
\* total bytes handed to write calls over a run
MaxFed == 5
\* number of short writes / I/O errors the underlying streams produce in a run
MaxFaults == 1

\* ------------------------------------------------------------- constants
TRUNCATED_TTY_MSG ==
  << 10, 91, 116, 114, 117, 110, 99, 97, 116, 101, 100, 59, 32, 117, 115,
     101, 32, 97, 32, 112, 105, 112, 101, 44, 32, 97, 32, 114, 101, 100,
     105, 114, 101, 99, 116, 44, 32, 111, 114, 32, 45, 45, 111, 117, 116,
     112, 117, 116, 32, 116, 111, 32, 115, 101, 101, 32, 102, 117, 108,
     108, 32, 109, 101, 115, 115, 97, 103, 101, 93, 10 >>

\* The bytes the model's callers write: 'a', and the two bytes of U+00E9.
\* 0xC3 alone, 0xA9 alone and 0xC3 'a' are not well-formed UTF-8.
Bytes == {97, 195, 169}

\* Output paths the callers name, and the contents a file may already have.
Paths == {"out"}
NoFile == <<-1>>
OldContents == {<<97>>}

RECURSIVE SeqsUpTo(_, _)
SeqsUpTo(S, n) ==
  IF n = 0 THEN {<<>>}
  ELSE LET shorter == SeqsUpTo(S, n - 1)
       IN  shorter \cup {Append(s, b) : s \in {t \in shorter : Len(t) = n - 1}, b \in S}


Min(a, b) == IF a < b THEN a ELSE b

Prefix(s, n) == SubSeq(s, 1, n)

Suffix(s, n) == SubSeq(s, n + 1, Len(s))

\* ------------------------------------------------------ std::str::from_utf8
IsCont(b) == b >= 128 /\ b <= 191

\* Number of bytes of the well-formed UTF-8 sequence starting at s[i], or 0
\* when s[i..] does not start with one (Unicode Table 3-7, as core::str
\* validates it).
Utf8CharLen(s, i) ==
  LET b  == s[i]
      n  == Len(s)
      c1 == IF i + 1 <= n THEN s[i + 1] ELSE -1
      c2 == IF i + 2 <= n THEN s[i + 2] ELSE -1
      c3 == IF i + 3 <= n THEN s[i + 3] ELSE -1
  IN  IF b <= 127 THEN 1
      ELSE IF b >= 194 /\ b <= 223 THEN (IF IsCont(c1) THEN 2 ELSE 0)
      ELSE IF b = 224 THEN (IF c1 >= 160 /\ c1 <= 191 /\ IsCont(c2) THEN 3 ELSE 0)
      ELSE IF (b >= 225 /\ b <= 236) \/ b = 238 \/ b = 239
           THEN (IF IsCont(c1) /\ IsCont(c2) THEN 3 ELSE 0)
      ELSE IF b = 237 THEN (IF c1 >= 128 /\ c1 <= 159 /\ IsCont(c2) THEN 3 ELSE 0)
      ELSE IF b = 240
           THEN (IF c1 >= 144 /\ c1 <= 191 /\ IsCont(c2) /\ IsCont(c3) THEN 4 ELSE 0)
      ELSE IF b >= 241 /\ b <= 243
           THEN (IF IsCont(c1) /\ IsCont(c2) /\ IsCont(c3) THEN 4 ELSE 0)
      ELSE IF b = 244
           THEN (IF c1 >= 128 /\ c1 <= 143 /\ IsCont(c2) /\ IsCont(c3) THEN 4 ELSE 0)
      ELSE 0

RECURSIVE Utf8From(_, _)
Utf8From(s, i) ==
  IF i > Len(s) THEN TRUE
  ELSE LET k == Utf8CharLen(s, i)
       IN  IF k = 0 THEN FALSE ELSE Utf8From(s, i + k)

\* Well-formed UTF-8, for the chunk set and the properties.
WellFormed(data) == Utf8From(data, 1)

\* Mutant: nothing is validated.
from_utf8_accepts_all(data) == TRUE

\* std::str::from_utf8(data).is_ok()
from_utf8_is_ok(data) == Utf8From(data, 1)

\* The chunks callers pass to write: every well-formed UTF-8 string over
\* Bytes up to MaxChunk bytes, and every other byte string up to MaxBadChunk.
Chunks ==
  {c \in SeqsUpTo(Bytes, MaxChunk) : WellFormed(c) \/ Len(c) <= MaxBadChunk}

\* ------------------------------------------------------------ io::Result
Ok(n) == [ok |-> TRUE, n |-> n, err |-> ""]

Err(e) == [ok |-> FALSE, n |-> 0, err |-> e]

\* ------------------------------------------- the underlying byte streams
\* What one call of Write::write on io::Stdout or File can do with buf:
\* accept all of it, accept a shorter prefix (a short write), or fail
\* having accepted nothing.  nf counts the short writes and errors.
inner_write(buf) ==
  {[res |-> Ok(k), acc |-> Prefix(buf, k), nf |-> IF k < Len(buf) THEN 1 ELSE 0] :
      k \in 0..Len(buf)}
  \cup {[res |-> Err("Io"), acc |-> <<>>, nf |-> 1]}

\* Lengths of the prefix a failed write_all has already put on the stream.
PartialLens(buf) == {0, 1, Len(buf) - 1} \cap (0..(Len(buf) - 1))

\* Write::write_all on io::Stdout: everything, or an error after a prefix.
write_all(buf) ==
  {[res |-> Ok(0), acc |-> buf, nf |-> 0]}
  \cup {[res |-> Err("Io"), acc |-> Prefix(buf, k), nf |-> 1] : k \in PartialLens(buf)}

\* Mutant: the dropped bytes are not reported as written.
sink_write_zero(buf) == 0

\* io::sink().write(buf): accepts and forgets everything.
sink_write(buf) == Len(buf)

\* ------------------------------------------------------------ StdoutWriter
NoWriter ==
  [kind |-> "none", path |-> "", count |-> 0, is_tty |-> FALSE, truncated |-> FALSE]

StdoutWriter_new(is_tty) ==
  [kind |-> "stdout", path |-> "", count |-> 0, is_tty |-> is_tty, truncated |-> FALSE]

FileWriter(filename) ==
  [kind |-> "file", path |-> filename, count |-> 0, is_tty |-> FALSE, truncated |-> FALSE]

\* The result of one call: the writer afterwards, the payload bytes and then
\* the message bytes the call put on standard output, what it returned, how
\* many faults of the underlying stream it met, and how many times write_all
\* of the message returned Ok in it.
Outcome(self, emit, msg, res, nf, tr) ==
  [self |-> self, emit |-> emit, msg |-> msg, res |-> res, nf |-> nf, tr |-> tr]

\* Mutant: the checks and the truncation are applied to every destination.
tty_checks_always(self) == TRUE

\* `if self.is_tty`: only a TTY gets the checks and the truncation.
tty_checks(self) == self.is_tty

\* Mutant: only the flag is looked at, not the count.
drop_output_flag_only(self) == self.truncated

\* "Drop output if we've truncated already, or need to."
drop_output(self) == self.truncated \/ self.count = SHORT_OUTPUT_LENGTH

\* Mutant: the whole chunk is written, whatever room is left below the cap.
to_write_of_uncapped(self, data) == Len(data)

\* Mutant: the room below the cap is computed without the bytes counted so far.
to_write_of_ignoring_count(self, data) == Min(SHORT_OUTPUT_LENGTH, Len(data))

to_write_of(self, data) ==
  LET to_write == SHORT_OUTPUT_LENGTH - self.count
  IN  IF to_write > Len(data) THEN Len(data) ELSE to_write

\* Mutant: reaching the limit never truncates within the same call.
limit_reached_never(count, data, to_write) == FALSE

\* "If we have reached the output limit with data to spare"
limit_reached_with_spare(count, data, to_write) ==
  count = SHORT_OUTPUT_LENGTH /\ Len(data) > to_write

\* Mutant: the message is written without looking at self.truncated.
emit_trailer_unguarded(self, emit, nf, ret) ==
  {IF t.res.ok
   THEN Outcome([self EXCEPT !.truncated = TRUE], emit, t.acc, Ok(ret), nf + t.nf, 1)
   ELSE Outcome(self, emit, t.acc, t.res, nf + t.nf, 0) :
   t \in write_all(TRUNCATED_TTY_MSG)}

\* Mutant: the message is written but self.truncated is never set.
emit_trailer_unflagged(self, emit, nf, ret) ==
  IF ~self.truncated
  THEN {IF t.res.ok
        THEN Outcome(self, emit, t.acc, Ok(ret), nf + t.nf, 1)
        ELSE Outcome(self, emit, t.acc, t.res, nf + t.nf, 0) :
        t \in write_all(TRUNCATED_TTY_MSG)}
  ELSE {Outcome(self, emit, <<>>, Ok(ret), nf, 0)}

\* Mutant: truncating starts the count again.
emit_trailer_resetting(self, emit, nf, ret) ==
  IF ~self.truncated
  THEN {IF t.res.ok
        THEN Outcome([self EXCEPT !.truncated = TRUE, !.count = 0],
                     emit, t.acc, Ok(ret), nf + t.nf, 1)
        ELSE Outcome(self, emit, t.acc, t.res, nf + t.nf, 0) :
        t \in write_all(TRUNCATED_TTY_MSG)}
  ELSE {Outcome(self, emit, <<>>, Ok(ret), nf, 0)}

\* The outcomes of the block `if !self.truncated { write_all(MSG)?;
\* self.truncated = true; }` when the call has already put emit on the
\* stream and returns Ok(ret) once the block is through.
emit_trailer_then(self, emit, nf, ret) ==
  IF ~self.truncated
  THEN {IF t.res.ok
        THEN Outcome([self EXCEPT !.truncated = TRUE], emit, t.acc, Ok(ret), nf + t.nf, 1)
        ELSE Outcome(self, emit, t.acc, t.res, nf + t.nf, 0) :
        t \in write_all(TRUNCATED_TTY_MSG)}
  ELSE {Outcome(self, emit, <<>>, Ok(ret), nf, 0)}

\* <StdoutWriter as Write>::write: the set of outcomes of self.write(data).
StdoutWriter_write(self, data) ==
  IF tty_checks(self)
  THEN IF ~from_utf8_is_ok(data)
       THEN {Outcome(self, <<>>, <<>>,
                     Err("not printing unprintable message to stdout"), 0, 0)}
       ELSE IF drop_output(self)
       THEN emit_trailer_then(self, <<>>, 0, sink_write(data))
       ELSE LET to_write == to_write_of(self, data)
            IN  UNION {
                  IF ~w.res.ok
                  THEN {Outcome(self, <<>>, <<>>, w.res, w.nf, 0)}
                  ELSE LET counted == [self EXCEPT !.count = self.count + to_write]
                       IN  IF limit_reached_with_spare(counted.count, data, to_write)
                           THEN emit_trailer_then(counted, w.acc, w.nf,
                                                  w.res.n + sink_write(Suffix(data, to_write)))
                           ELSE {Outcome(counted, w.acc, <<>>, w.res, w.nf, 0)} :
                  w \in inner_write(Prefix(data, to_write))}
  ELSE {Outcome(self, w.acc, <<>>, w.res, w.nf, 0) : w \in inner_write(data)}

\* ------------------------------------------------------------ OutputWriter
None == "None"

\* Mutant: deny_tty refuses standard output whether or not it is a terminal.
refuses_tty_any_stdout(is_tty, deny_tty) == deny_tty

\* `else if is_tty && deny_tty`
refuses_tty(is_tty, deny_tty) == is_tty /\ deny_tty

\* Mutant: the file is opened with create and truncate, not create_new.
open_create_truncate(files, filename) ==
  {[writer |-> FileWriter(filename), files |-> [files EXCEPT ![filename] = <<>>],
    res |-> Ok(0)],
   [writer |-> NoWriter, files |-> files, res |-> Err("PermissionDenied")]}

\* OpenOptions::new().write(true).create_new(true).open(filename)?: fails if
\* the file exists; otherwise creates it empty, or fails for another reason
\* of the operating system.
open_create_new(files, filename) ==
  IF files[filename] # NoFile
  THEN {[writer |-> NoWriter, files |-> files, res |-> Err("AlreadyExists")]}
  ELSE {[writer |-> FileWriter(filename), files |-> [files EXCEPT ![filename] = <<>>],
         res |-> Ok(0)],
        [writer |-> NoWriter, files |-> files, res |-> Err("PermissionDenied")]}

\* OutputWriter::new(output, deny_tty), with is_tty the answer of
\* console::user_attended() and files the file system: the set of outcomes.
OutputWriter_new(output, deny_tty, is_tty, files) ==
  IF output # None
  THEN open_create_new(files, output)
  ELSE IF refuses_tty(is_tty, deny_tty)
       THEN {[writer |-> NoWriter, files |-> files, res |-> Err("not printing to stdout")]}
       ELSE {[writer |-> StdoutWriter_new(is_tty), files |-> files, res |-> Ok(0)]}

\* ------------------------------------------------------------------ state
VARIABLES
  attended,   \* what console::user_attended() answers in this process
  fs,         \* the file system: path -> content, or NoFile
  writer,     \* the OutputWriter the caller holds, NoWriter before it has one
  stdout,     \* the bytes io::Stdout has accepted
  payload,    \* history: the bytes of stdout that payload writes put there
  trailer,    \* history: the bytes of stdout that message writes put there
  ret,        \* the last call: operation, arguments, result, and the writer
              \* and the lengths of stdout and payload when it was made
  fed,        \* history: concatenation of the chunks passed to write
  fedok,      \* history: every chunk passed to write was well-formed UTF-8
  acked,      \* history: sum of the n of the Ok(n) the write calls returned
  faults,     \* history: short writes and errors of the underlying streams
  trailers    \* history: number of write_all(TRUNCATED_TTY_MSG) that returned Ok

vars == <<attended, fs, writer, stdout, payload, trailer, ret, fed, fedok, acked, faults, trailers>>

Call(op, output, deny_tty, data, res) ==
  [op |-> op, output |-> output, deny_tty |-> deny_tty, data |-> data, res |-> res,
   self |-> writer, at |-> Len(stdout), paid |-> Len(payload)]

Init ==
  /\ attended \in BOOLEAN
  /\ fs \in [Paths -> OldContents \cup {NoFile}]
  /\ writer = NoWriter
  /\ stdout = <<>>
  /\ payload = <<>>
  /\ trailer = <<>>
  /\ ret = [op |-> "none", output |-> None, deny_tty |-> FALSE, data |-> <<>>,
            res |-> Ok(0), self |-> NoWriter, at |-> 0, paid |-> 0]
  /\ fed = <<>>
  /\ fedok = TRUE
  /\ acked = 0
  /\ faults = 0
  /\ trailers = 0

\* let w = OutputWriter::new(output, deny_tty)
New ==
  /\ writer.kind = "none"
  /\ \E output \in Paths \cup {None}, deny_tty \in BOOLEAN :
       \E o \in OutputWriter_new(output, deny_tty, attended, fs) :
         /\ writer' = o.writer
         /\ fs' = o.files
         /\ ret' = Call("new", output, deny_tty, <<>>, o.res)
  /\ UNCHANGED <<attended, stdout, payload, trailer, fed, fedok, acked, faults, trailers>>

\* w.write(data) with w an OutputWriter::Stdout
WriteStdout ==
  /\ writer.kind = "stdout"
  /\ \E data \in Chunks :
       /\ Len(fed) + Len(data) <= MaxFed
       /\ \E o \in StdoutWriter_write(writer, data) :
            /\ faults + o.nf <= MaxFaults
            /\ writer' = o.self
            /\ stdout' = stdout \o o.emit \o o.msg
            /\ payload' = payload \o o.emit
            /\ trailer' = trailer \o o.msg
            /\ ret' = Call("write", None, FALSE, data, o.res)
            /\ fed' = fed \o data
            /\ fedok' = (fedok /\ WellFormed(data))
            /\ acked' = acked + o.res.n
            /\ faults' = faults + o.nf
            /\ trailers' = trailers + o.tr
  /\ UNCHANGED <<attended, fs>>

\* w.write(data) with w an OutputWriter::File
WriteFile ==
  /\ writer.kind = "file"
  /\ \E data \in Chunks :
       /\ Len(fed) + Len(data) <= MaxFed
       /\ \E w \in inner_write(data) :
            /\ faults + w.nf <= MaxFaults
            /\ fs' = [fs EXCEPT ![writer.path] = @ \o w.acc]
            /\ ret' = Call("write", None, FALSE, data, w.res)
            /\ fed' = fed \o data
            /\ fedok' = (fedok /\ WellFormed(data))
            /\ acked' = acked + w.res.n
            /\ faults' = faults + w.nf
  /\ UNCHANGED <<attended, writer, stdout, payload, trailer, trailers>>

\* w.flush(): delegates to the underlying stream, which flushes or fails.
Flush ==
  /\ writer.kind # "none"
  /\ \E r \in {Ok(0), Err("Io")} : ret' = Call("flush", None, FALSE, <<>>, r)
  /\ UNCHANGED <<attended, fs, writer, stdout, payload, trailer, fed, fedok, acked, faults, trailers>>

Next == New \/ WriteStdout \/ WriteFile \/ Flush

Spec == Init /\ [][Next]_vars

TypeOK ==
  /\ attended \in BOOLEAN
  /\ writer.kind \in {"none", "file", "stdout"}
  /\ writer.count \in 0..SHORT_OUTPUT_LENGTH
  /\ Len(stdout) = Len(payload) + Len(trailer)
  /\ faults \in 0..MaxFaults

\* ------------------------------------------------------------- properties
Interactive(w) == w.kind = "stdout" /\ w.is_tty

Unprintable == Err("not printing unprintable message to stdout")

\* The last call was write on an interactive StdoutWriter.
TtyWriteReturned == ret.op = "write" /\ Interactive(ret.self)

\* What the last call put on standard output.
Emitted == Suffix(stdout, ret.at)

\* C1: on a writer constructed with is_tty = true, the payload bytes handed
\* to standard output never number more than SHORT_OUTPUT_LENGTH, and count
\* stays within 0..SHORT_OUTPUT_LENGTH, whatever is written.
C1_PayloadCapped ==
  Interactive(writer) =>
    /\ Len(payload) <= SHORT_OUTPUT_LENGTH
    /\ 0 <= writer.count
    /\ writer.count <= SHORT_OUTPUT_LENGTH

\* C1 witness: the cap is full and more than the cap has been written.
C1_Witness ==
  /\ Interactive(writer)
  /\ Len(payload) = SHORT_OUTPUT_LENGTH
  /\ Len(fed) > SHORT_OUTPUT_LENGTH
  /\ fedok

\* C2: on a writer constructed with is_tty = false, count and truncated stay
\* 0 and false, the message is never written, no write is refused as
\* unprintable, and as long as the stream accepts all it is offered every
\* write returns the chunk's length and standard output holds exactly the
\* concatenation of the chunks, ill-formed and beyond the cap included.
C2_PassThrough ==
  (writer.kind = "stdout" /\ ~writer.is_tty) =>
    /\ writer.count = 0
    /\ ~writer.truncated
    /\ trailers = 0
    /\ trailer = <<>>
    /\ ret.res # Unprintable
    /\ faults = 0 =>
         /\ stdout = fed
         /\ ret.op = "write" => ret.res = Ok(Len(ret.data))

\* C2 witness: ill-formed bytes and more than the cap went through a pipe.
C2_Witness ==
  /\ writer.kind = "stdout"
  /\ ~writer.is_tty
  /\ faults = 0
  /\ ~fedok
  /\ Len(fed) > SHORT_OUTPUT_LENGTH
  /\ stdout = fed

\* C3: on an interactive writer whose stream accepts all it is offered, once
\* well-formed chunks of more than SHORT_OUTPUT_LENGTH bytes in total have
\* been written, standard output holds the first SHORT_OUTPUT_LENGTH bytes of
\* their concatenation followed by the message once, and nothing else.
C3_TruncatedOutput ==
  (Interactive(writer) /\ faults = 0 /\ fedok /\ Len(fed) > SHORT_OUTPUT_LENGTH) =>
    /\ stdout = Prefix(fed, SHORT_OUTPUT_LENGTH) \o TRUNCATED_TTY_MSG
    /\ payload = Prefix(fed, SHORT_OUTPUT_LENGTH)
    /\ trailer = TRUNCATED_TTY_MSG

\* C3 witness: a second write straddles the cap; part passes, the message
\* follows, the rest is dropped.
C3_Witness ==
  /\ TtyWriteReturned
  /\ faults = 0
  /\ fedok
  /\ ret.self.count > 0
  /\ ret.self.count < SHORT_OUTPUT_LENGTH
  /\ ret.self.count + Len(ret.data) > SHORT_OUTPUT_LENGTH
  /\ fed = payload \o Suffix(ret.data, SHORT_OUTPUT_LENGTH - ret.self.count)

\* C4: on an interactive writer write_all of the message has succeeded at
\* most once, and exactly once precisely when truncated is set; with a
\* stream that accepts all it is offered the message bytes on standard
\* output are the message once when truncated and none otherwise.
C4_TrailerOnce ==
  Interactive(writer) =>
    /\ trailers <= 1
    /\ writer.truncated <=> trailers = 1
    /\ faults = 0 => trailer = (IF writer.truncated THEN TRUNCATED_TTY_MSG ELSE <<>>)

\* C4 witness: a well-formed chunk was written to a writer already truncated.
C4_Witness ==
  /\ TtyWriteReturned
  /\ ret.self.truncated
  /\ ret.data # <<>>
  /\ ret.res.ok
  /\ trailers = 1

\* C5: a write of a chunk that is not well-formed UTF-8 to an interactive
\* writer returns the unprintable error, puts nothing on standard output and
\* leaves the writer as it was, in every state of the writer.
C5_UnprintableRejected ==
  (TtyWriteReturned /\ ~WellFormed(ret.data)) =>
    /\ ret.res = Unprintable
    /\ writer = ret.self
    /\ Len(stdout) = ret.at

\* C5 witness: the chunk is refused when count is at the cap and the message
\* has not been written yet.
C5_Witness ==
  /\ TtyWriteReturned
  /\ ~WellFormed(ret.data)
  /\ ret.self.count = SHORT_OUTPUT_LENGTH
  /\ ~ret.self.truncated
  /\ ret.res = Unprintable

\* C6 as claimed: after every write call on an interactive writer returns,
\* count = SHORT_OUTPUT_LENGTH implies truncated and the message written once
\* (stated for a stream that accepts all it is offered).
C6_Claimed ==
  (TtyWriteReturned /\ faults = 0 /\ writer.count = SHORT_OUTPUT_LENGTH) =>
    (writer.truncated /\ trailers = 1)

\* The call has a well-formed chunk that the writer drops at least in part
\* or meets with count already at the cap.
DropsOrAtCap(self, data) ==
  \/ self.truncated
  \/ self.count = SHORT_OUTPUT_LENGTH
  \/ Len(data) > SHORT_OUTPUT_LENGTH - self.count

\* C6 amended: reaching the cap does not by itself write the message.  After
\* a write call on an interactive writer returns Ok, truncated is set exactly
\* when the writer was truncated before, or the call found count already at
\* the cap, or its chunk had bytes beyond the cap; truncated implies count at
\* the cap and the message written once.  Writes that fill the cap exactly
\* leave truncated unset and no message on standard output.
C6_TruncatesOnOverflow ==
  (TtyWriteReturned /\ ret.res.ok) =>
    /\ writer.truncated <=> DropsOrAtCap(ret.self, ret.data)
    /\ writer.truncated => (writer.count = SHORT_OUTPUT_LENGTH /\ trailers = 1)
    /\ ~writer.truncated => (trailers = 0 /\ trailer = <<>>)

\* C6 witness: writes of exactly SHORT_OUTPUT_LENGTH bytes in total have
\* returned; count is at the cap, truncated is unset, no message is out.
C6_Witness ==
  /\ TtyWriteReturned
  /\ ret.res.ok
  /\ faults = 0
  /\ fedok
  /\ Len(fed) = SHORT_OUTPUT_LENGTH
  /\ writer.count = SHORT_OUTPUT_LENGTH
  /\ ~writer.truncated
  /\ stdout = fed

\* C7: on an interactive writer whose stream accepts all it is offered, a
\* write of a well-formed chunk returns Ok(len(data)), whether the chunk
\* fits below the cap, straddles it, or arrives after truncation.
C7_ReportsFullLength ==
  (TtyWriteReturned /\ faults = 0 /\ WellFormed(ret.data)) =>
    ret.res = Ok(Len(ret.data))

\* C7 witness: a chunk straddles the cap; fewer bytes than reported reach
\* standard output as payload.
C7_Witness ==
  /\ TtyWriteReturned
  /\ faults = 0
  /\ WellFormed(ret.data)
  /\ ret.self.count < SHORT_OUTPUT_LENGTH
  /\ ret.self.count + Len(ret.data) > SHORT_OUTPUT_LENGTH
  /\ ret.res = Ok(Len(ret.data))
  /\ Len(Emitted) < ret.res.n + Len(TRUNCATED_TTY_MSG)

\* C8: once truncated is set, a write of a well-formed chunk leaves count,
\* truncated and standard output as they were: no payload byte and no second
\* message follow the message.
C8_TruncatedAbsorbing ==
  (TtyWriteReturned /\ ret.self.truncated /\ WellFormed(ret.data)) =>
    /\ writer = ret.self
    /\ Len(stdout) = ret.at
    /\ trailers = 1

\* C8 witness: a non-empty well-formed chunk was written after truncation.
C8_Witness ==
  /\ TtyWriteReturned
  /\ ret.self.truncated
  /\ WellFormed(ret.data)
  /\ Len(ret.data) > 0
  /\ writer.truncated
  /\ Emitted = <<>>

\* The call that writes content in one piece to a fresh interactive writer
\* whose stream accepts all it is offered.
WholeWrite(content) ==
  CHOOSE o \in StdoutWriter_write(StdoutWriter_new(TRUE), content) : o.nf = 0

\* Chunked and whole agree: the same payload on standard output, and the
\* caller is told of as many bytes written.
SameAsWhole ==
  LET whole == WholeWrite(fed)
  IN  /\ payload = whole.emit
      /\ whole.res.ok
      /\ acked = whole.res.n

\* C9 as claimed: whatever the split points, inside a multi-byte character
\* included, writing well-formed content in chunks gives what writing it in
\* one call gives.
C9_Claimed ==
  (Interactive(writer) /\ faults = 0 /\ WellFormed(fed)) => SameAsWhole

\* C9 amended: writing well-formed content in chunks that are each
\* well-formed UTF-8 (empty chunks included), to an interactive writer whose
\* stream accepts all it is offered, puts the same payload on standard output
\* and reports as many bytes written as writing it in one call.
C9_ChunkingInvariant ==
  (Interactive(writer) /\ faults = 0 /\ fedok) => SameAsWhole

\* C9 witness: content longer than the cap, containing a two-byte character,
\* was written in more than one non-empty chunk.
C9_Witness ==
  /\ TtyWriteReturned
  /\ faults = 0
  /\ fedok
  /\ Len(fed) > SHORT_OUTPUT_LENGTH
  /\ Len(ret.data) > 0
  /\ Len(ret.data) < Len(fed)
  /\ \E i \in 1..Len(fed) : fed[i] > 127
  /\ SameAsWhole

\* C10: OutputWriter::new returns the refusal exactly when there is no path,
\* standard output is attended and deny_tty is set, and then hands out no
\* writer and writes nothing; without a path it otherwise returns a
\* StdoutWriter with is_tty as queried, count 0 and truncated false; with a
\* path neither the query nor deny_tty changes what it does.
C10_NewRefusesTty ==
  /\ ret.op = "new" =>
       /\ ret.res = Err("not printing to stdout")
            <=> (ret.output = None /\ attended /\ ret.deny_tty)
       /\ ret.res = Err("not printing to stdout")
            => (writer = NoWriter /\ stdout = <<>>)
       /\ (ret.output = None /\ ~(attended /\ ret.deny_tty))
            => /\ ret.res.ok
               /\ writer.kind = "stdout"
               /\ writer.is_tty = attended
               /\ writer.count = 0
               /\ ~writer.truncated
       /\ (ret.output # None /\ ret.res.ok) => writer = FileWriter(ret.output)
  /\ writer.kind = "none" =>
       \A output \in Paths, is_tty \in BOOLEAN, deny_tty \in BOOLEAN :
         OutputWriter_new(output, deny_tty, is_tty, fs)
           = OutputWriter_new(output, FALSE, FALSE, fs)

\* C10 witness: new was refused.
C10_Witness ==
  /\ ret.op = "new"
  /\ ret.output = None
  /\ attended
  /\ ret.deny_tty
  /\ ret.res = Err("not printing to stdout")
  /\ writer = NoWriter

\* C11: OutputWriter::new with a path that exists returns AlreadyExists,
\* hands out no writer and leaves the file system as it was, whatever
\* user_attended() and deny_tty are; with a path that does not exist it never
\* returns AlreadyExists, and when the open succeeds the file exists, empty,
\* and a File writer for it is returned.
C11_ExclusiveCreate ==
  [][(writer.kind = "none" /\ ret'.op = "new" /\ ret'.output # None) =>
       IF fs[ret'.output] # NoFile
       THEN /\ ret'.res = Err("AlreadyExists")
            /\ fs' = fs
            /\ writer' = NoWriter
       ELSE /\ ret'.res.err # "AlreadyExists"
            /\ ret'.res.ok =>
                 /\ fs' = [fs EXCEPT ![ret'.output] = <<>>]
                 /\ writer' = FileWriter(ret'.output)
            /\ ~ret'.res.ok => (fs' = fs /\ writer' = NoWriter)]_vars

\* C11 witness: new was refused for a file that exists; its content is
\* still there, with standard output attended and deny_tty set.
C11_Witness ==
  /\ ret.op = "new"
  /\ ret.output \in Paths
  /\ ret.res = Err("AlreadyExists")
  /\ fs[ret.output] \in OldContents
  /\ attended
  /\ ret.deny_tty
  /\ writer = NoWriter

\* The payload bytes the last call put on standard output.
PayloadByCall == Len(payload) - ret.paid

\* The bytes of the last call's chunk that it reported as written and that
\* did not go to standard output: the bytes it gave to io::sink().
DiscardedByCall == ret.res.n - PayloadByCall

\* The last call wrote the message and set truncated.
TrailerByCall == writer.truncated /\ ~ret.self.truncated

\* C12 as claimed: on an interactive writer (with a stream that accepts all
\* it is offered) a write call that discards payload bytes leaves the
\* message written, and a write call writes the message only if it discards
\* at least one payload byte.
C12_Claimed ==
  (TtyWriteReturned /\ faults = 0 /\ ret.res.ok) =>
    /\ DiscardedByCall > 0 => (writer.truncated /\ trailers = 1)
    /\ TrailerByCall => DiscardedByCall > 0

\* C13: in every step of a StdoutWriter, a write or a flush, truncated does
\* not go from true to false, count does not decrease, count does not change
\* when truncated was set, and a flush changes neither.
C13_Monotone ==
  [][writer.kind = "stdout" =>
       /\ writer.truncated => writer'.truncated
       /\ writer'.count >= writer.count
       /\ writer.truncated => writer'.count = writer.count
       /\ ret'.op = "flush" =>
            (writer'.count = writer.count /\ writer'.truncated = writer.truncated)]_vars

\* C13 witness: a truncated writer has been written to and then flushed.
C13_Witness ==
  /\ ret.op = "flush"
  /\ Interactive(writer)
  /\ writer.truncated
  /\ writer.count = SHORT_OUTPUT_LENGTH
  /\ Len(fed) > SHORT_OUTPUT_LENGTH + 1

\* C14 as claimed: on an interactive writer count is the number of payload
\* bytes standard output has accepted, short writes included, and a write
\* that returns Ok(n) without discarding anything has advanced count by n.
C14_Claimed ==
  /\ Interactive(writer) => writer.count = Len(payload)
  /\ (TtyWriteReturned /\ ret.res.ok /\ ~writer.truncated) =>
       writer.count = ret.self.count + ret.res.n

\* C15 as claimed: after writes of chunks that are each well-formed UTF-8 to
\* an interactive writer (with a stream that accepts all it is offered), the
\* payload on standard output is well-formed UTF-8.
C15_Claimed ==
  (Interactive(writer) /\ fedok /\ faults = 0) => WellFormed(payload)

\* C16 as claimed: when a write call on an interactive writer returns an
\* error, count and truncated are what they were before the call and the
\* call has put no payload byte on standard output.
C16_Claimed ==
  (TtyWriteReturned /\ ~ret.res.ok) =>
    /\ writer.count = ret.self.count
    /\ writer.truncated = ret.self.truncated
    /\ PayloadByCall = 0

\* The last call offered a non-empty prefix of its chunk to standard output.
OfferedPayload ==
  ~ret.self.truncated /\ ret.self.count < SHORT_OUTPUT_LENGTH /\ ret.data # <<>>

\* C17: on an interactive writer a write of a non-empty well-formed chunk
\* that returns Ok(n), with standard output accepting at least one byte of
\* a non-empty prefix offered to it, has 1 <= n <= len(data), whether the
\* writer was below the cap, at the cap or truncated: a caller that writes
\* the remainder again never sees Ok(0) and its remainder shrinks each time.
C17_WriteAllProgress ==
  (/\ TtyWriteReturned
   /\ ret.res.ok
   /\ WellFormed(ret.data)
   /\ ret.data # <<>>
   /\ OfferedPayload => PayloadByCall >= 1) =>
    /\ ret.res.n >= 1
    /\ ret.res.n <= Len(ret.data)

\* C17 witness: after a short write the caller wrote a non-empty remainder
\* to a writer whose count was at the cap; all of it was reported written.
C17_Witness ==
  /\ TtyWriteReturned
  /\ faults >= 1
  /\ ret.self.count = SHORT_OUTPUT_LENGTH
  /\ ~ret.self.truncated
  /\ Len(payload) < SHORT_OUTPUT_LENGTH
  /\ WellFormed(ret.data)
  /\ ret.data # <<>>
  /\ ret.res = Ok(Len(ret.data))
  /\ PayloadByCall = 0

====
